---- MODULE Spec2Model ----
(***************************************************************************)
(* The IDS dashboard (ids-dashboard/app/page.tsx).  The webhook (lines     *)
(* 345-406): the module-level cached MongoClient, the POST handler that    *)
(* validates, normalises and inserts one event, and the GET handler that   *)
(* returns the 200 most recent events.  The dashboard component (lines     *)
(* 56-110): the poll that fetches the events, and the time series, the     *)
(* title bars and the statistics computed from them.                       *)
(*                                                                         *)
(* JavaScript runs one handler segment at a time: a handler runs without   *)
(* interruption from one `await` to the next.  Every action below is one   *)
(* such segment, or one completion of an I/O operation of the MongoDB      *)
(* driver (connect, insertOne, find), which the environment decides.       *)
(* Time is counted in hours since 2024-01-01T00:00Z.                       *)
(***************************************************************************)
EXTENDS Integers, Sequences, FiniteSets, TLC

\* Request slots: the handlers the server may run concurrently.
Handlers == {"h1", "h2"}
\* The server clock runs over 0..MaxClock.
MaxClock == 1
\* Requests are accepted only while the collection can still grow to MaxStore.
MaxStore == 2
\* .limit(200) of GET.
FetchLimit == 200

VARIABLES
    now,            \* the server clock, what `new Date()` reads
    cachedClient,   \* the module-level `cachedClient`: Null or a client id
    clients,        \* the MongoClient objects constructed so far: their connection state
    connectCalls,   \* how many times the code has called connect()
    store,          \* the `events` collection, in insertion order
    pc,             \* where each handler is suspended
    kind,           \* which handler runs in the slot: "POST" or "GET"
    data,           \* the request body as request.json() sees it
    eventToInsert,  \* POST's local `eventToInsert`
    stamp,          \* the clock value POST read while building eventToInsert
    client,         \* the handler's local `client`
    settled,        \* the outcome of the promise the handler awaits
    response,       \* the response the handler returned
    events,         \* the dashboard's state `events`: the window it displays
    timeGroup       \* the dashboard's state `timeGroup`: "jour" or "heure"

vars == <<now, cachedClient, clients, connectCalls, store, pc, kind, data,
          eventToInsert, stamp, client, settled, response, events, timeGroup>>

\* The state of the dashboard component (Home), which no handler touches.
dashboard == <<events, timeGroup>>

-----------------------------------------------------------------------------
(* JSON values, as request.json() produces them *)

Undefined == [type |-> "undefined"]
JNull == [type |-> "null"]
JStr(s) == [type |-> "string", str |-> s]
JNum(n) == [type |-> "number", num |-> n]
JObj(f) == [type |-> "object", fields |-> f]

\* What reaches request.json(): text that is no JSON, or a JSON value.
Unparsable == [type |-> "unparsable"]

\* The value the destructuring `const { f } = data` binds to f.
Field(d, f) ==
    IF d.type = "object" /\ f \in DOMAIN d.fields THEN d.fields[f] ELSE Undefined

\* `const { ... } = data` throws a TypeError on null (and undefined) only.
Destructurable(d) == d.type \notin {"null", "undefined"}

\* JavaScript truthiness, as in `!titre`, `date ? :`, `if (recommendation)`.
Truthy(v) ==
    CASE v.type = "undefined" -> FALSE
      [] v.type = "null" -> FALSE
      [] v.type = "string" -> v.str # ""
      [] v.type = "number" -> v.num # 0
      [] OTHER -> TRUE

\* `typeof v === 'string'`
IsString(v) == v.type = "string"

-----------------------------------------------------------------------------
(* Dates *)

DateOf(t) == [valid |-> TRUE, time |-> t]
\* `new Date(x)` of something that is no date: getTime() is NaN.
InvalidDate == [valid |-> FALSE, time |-> 0]

\* Date.parse of the date strings the model submits.
ParseDate(s) ==
    CASE s = "2024-01-01T01:00" -> DateOf(1)
      [] s = "2024-01-01T10:00" -> DateOf(10)
      [] s = "2024-01-01T11:00" -> DateOf(11)
      [] s = "2024-01-02T09:00" -> DateOf(33)
      [] OTHER -> InvalidDate

\* `new Date(v)` for a truthy JSON value v.
NewDate(v) ==
    CASE v.type = "string" -> ParseDate(v.str)
      [] v.type = "number" -> DateOf(v.num)
      [] OTHER -> InvalidDate

-----------------------------------------------------------------------------
(* POST: validation and normalisation *)

\* Line 368 without `!titre`: the empty string passes.
TitreAcceptedAnyString(titre) == IsString(titre)

\* The condition of line 368 negated: the payload passes validation.
TitreAccepted(titre) == Truthy(titre) /\ IsString(titre)

\* `if (recommendation) eventToInsert.recommendation = recommendation`, and
\* the same for ip_source: the field is copied when truthy, else left out.
WithOptional(ev, d, f) ==
    IF Truthy(Field(d, f)) THEN ev @@ (f :> Field(d, f)) ELSE ev

\* Lines 375-381 with receivedAt taken from the payload when it has one.
BuildEventTrustingPayload(d, t) ==
    LET date == Field(d, "date")
        received == Field(d, "receivedAt")
        base == [titre |-> Field(d, "titre").str,
                 date |-> IF Truthy(date) THEN NewDate(date) ELSE DateOf(t),
                 receivedAt |-> IF Truthy(received) THEN NewDate(received) ELSE DateOf(t)]
    IN WithOptional(WithOptional(base, d, "recommendation"), d, "ip_source")

\* Lines 375-381: the object POST inserts, built from the payload d at clock t.
BuildEvent(d, t) ==
    LET date == Field(d, "date")
        base == [titre |-> Field(d, "titre").str,
                 date |-> IF Truthy(date) THEN NewDate(date) ELSE DateOf(t),
                 receivedAt |-> DateOf(t)]
    IN WithOptional(WithOptional(base, d, "recommendation"), d, "ip_source")

-----------------------------------------------------------------------------
(* Values of the handlers' locals *)

Null == 0
NoEvent == [titre |-> ""]
NoData == Undefined
NoResponse == [status |-> 0]
NotAwaiting == [state |-> "none"]
Pending == [state |-> "pending"]
Fulfilled(v) == [state |-> "fulfilled", value |-> v]
Rejected(msg) == [state |-> "rejected", reason |-> msg]

\* NextResponse.json(body, {status}): status 200 when none is given.
Json(body, status) == body @@ [status |-> status]

\* The catch blocks of POST and GET: `error.message` with status 500.
ErrorResponse(msg) == Json([ok |-> FALSE, error |-> msg], 500)
\* Lines 369-372.
TitreResponse ==
    Json([ok |-> FALSE, error |-> "Le champ titre est obligatoire"], 400)
\* Line 387.
InsertedResponse(result) == Json([ok |-> TRUE, insertedId |-> result.insertedId], 200)
\* Line 402.
EventsResponse(found) == Json([ok |-> TRUE, events |-> found], 200)

-----------------------------------------------------------------------------
(* The collection *)

\* A write that replaces the stored record of the same titre, if there is one.
InsertedAsUpsert(docs, doc) ==
    LET same == {i \in DOMAIN docs : docs[i].titre = doc.titre}
    IN IF same = {} THEN Append(docs, doc @@ [_id |-> Len(docs) + 1])
       ELSE LET i == CHOOSE i \in same : TRUE
            IN [docs EXCEPT ![i] = doc @@ [_id |-> i]]

\* insertOne(doc): the collection after the write, the driver having assigned _id.
\* The collection holds the document as it was handed to insertOne.
Inserted(docs, doc) == Append(docs, doc @@ [_id |-> Len(docs) + 1])

Take(s, n) == IF Len(s) <= n THEN s ELSE SubSeq(s, 1, n)

\* The documents that carry the receivedAt of document i.
SameReceivedAt(docs, i) ==
    {j \in DOMAIN docs : docs[j].receivedAt.time = docs[i].receivedAt.time}

\* The documents that share their receivedAt with another document.
Tied(docs) == {i \in DOMAIN docs : SameReceivedAt(docs, i) # {i}}

\* sort({receivedAt: -1}) leaves the order of documents with equal receivedAt
\* open: every way of ranking the tied documents within their groups.
TieOrders(docs) ==
    {o \in [Tied(docs) -> 1..Cardinality(Tied(docs))] :
        \A i \in Tied(docs) :
            /\ o[i] <= Cardinality(SameReceivedAt(docs, i))
            /\ \A j \in SameReceivedAt(docs, i) \ {i} : o[j] # o[i]}

\* Document i comes before document j: it is more recent, or it is tied with
\* j and ranked before it.
Before(docs, o, i, j) ==
    \/ docs[i].receivedAt.time > docs[j].receivedAt.time
    \/ /\ docs[i].receivedAt.time = docs[j].receivedAt.time
       /\ o[i] < o[j]

\* The documents at the given positions of the collection.
Arranged(docs, idx) == [k \in DOMAIN idx |-> docs[idx[k]]]

\* Every order of the documents that sort({receivedAt: -1}) may produce.
SortedDesc(docs) ==
    {Arranged(docs, SortSeq([i \in DOMAIN docs |-> i],
                            LAMBDA i, j : Before(docs, o, i, j))) :
        o \in TieOrders(docs)}

\* sort({receivedAt: 1}): the oldest documents first.
Reversed(s) == [k \in DOMAIN s |-> s[Len(s) + 1 - k]]
FindOldest(docs) == {Take(Reversed(s), FetchLimit) : s \in SortedDesc(docs)}

\* A window that is one record short of the limit.
FindRecentShortWindow(docs) ==
    {Take(s, FetchLimit - 1) : s \in SortedDesc(docs)}

\* find({}).sort({receivedAt: -1}).limit(200).toArray(): the arrays it may return.
FindRecent(docs) == {Take(s, FetchLimit) : s \in SortedDesc(docs)}

-----------------------------------------------------------------------------
Init ==
    /\ now = 0
    /\ cachedClient = Null
    /\ clients = <<>>
    /\ connectCalls = 0
    /\ store = <<>>
    /\ pc = [h \in Handlers |-> "idle"]
    /\ kind = [h \in Handlers |-> "none"]
    /\ data = [h \in Handlers |-> NoData]
    /\ eventToInsert = [h \in Handlers |-> NoEvent]
    /\ stamp = [h \in Handlers |-> 0]
    /\ client = [h \in Handlers |-> Null]
    /\ settled = [h \in Handlers |-> NotAwaiting]
    /\ response = [h \in Handlers |-> NoResponse]
    /\ events = <<>>
    /\ timeGroup = "jour"

-----------------------------------------------------------------------------
(* The request bodies the model submits *)

Bodies ==
    { Unparsable,
      JNull,
      JObj(<<>>),
      JObj([titre |-> JStr("")]),
      JObj([titre |-> JNum(42)]),
      JObj([titre |-> JStr("Port Scan")]),
      JObj([titre |-> JStr("Port Scan"), receivedAt |-> JStr("2024-01-02T09:00"),
            _id |-> JNum(7)]),
      JObj([titre |-> JStr("Brute Force"), date |-> JStr("2024-01-01T01:00"),
            recommendation |-> JStr("block"), ip_source |-> JStr("10.0.0.1")]),
      JObj([titre |-> JStr("Brute Force"), date |-> JStr("yesterday")]) }

-----------------------------------------------------------------------------
(* getClient, lines 353-360 *)

\* A pending promise that settles with the connection of client c.
Awaiting(c) == [state |-> "pending", on |-> c]

\* getClient() without the test of line 354: every call constructs a client.
GetClientCallUncached(h) ==
    /\ clients' = Append(clients, "connecting")
    /\ cachedClient' = Len(clients) + 1
    /\ connectCalls' = connectCalls + 1
    /\ settled' = [settled EXCEPT ![h] = Awaiting(Len(clients) + 1)]

\* getClient() up to its first suspension, called by handler h.  With a cached
\* client it returns it at once (line 355).  Otherwise it constructs a client,
\* stores it in cachedClient and calls connect() (lines 357-358) before it
\* suspends, so that the assignment is visible to every later call.
GetClientCall(h) ==
    IF cachedClient # Null
    THEN /\ settled' = [settled EXCEPT ![h] = Fulfilled(cachedClient)]
         /\ UNCHANGED <<cachedClient, clients, connectCalls>>
    ELSE /\ clients' = Append(clients, "connecting")
         /\ cachedClient' = Len(clients) + 1
         /\ connectCalls' = connectCalls + 1
         /\ settled' = [settled EXCEPT ![h] = Awaiting(Len(clients) + 1)]

\* The promise of h's getClient() call: fulfilled at once on the cached path;
\* on the other path it settles with connect(): `return cachedClient` (line
\* 359) when connect() succeeded, and connect()'s error when it failed.
GetClientOutcome(h) ==
    IF settled[h].state # "pending" THEN settled[h]
    ELSE CASE clients[settled[h].on] = "connecting" -> Pending
           [] clients[settled[h].on] = "connected" -> Fulfilled(cachedClient)
           [] OTHER -> Rejected("connect ECONNREFUSED")

\* The driver finishes connecting client c, or gives up.
ConnectSettles(c, ok) ==
    /\ c \in DOMAIN clients
    /\ clients[c] = "connecting"
    /\ clients' = [clients EXCEPT ![c] = IF ok THEN "connected" ELSE "failed"]
    /\ UNCHANGED <<now, cachedClient, connectCalls, store, pc, kind, data,
                   eventToInsert, stamp, client, settled, response>>
    /\ UNCHANGED dashboard

-----------------------------------------------------------------------------
(* POST, lines 362-395 *)

InFlightPosts == {h \in Handlers : kind[h] = "POST" /\ pc[h] # "done"}

\* A webhook call arrives in slot h with the given body; POST awaits request.json().
POST(h, body, room) ==
    /\ pc[h] \in {"idle", "done"}
    /\ Len(store) + Cardinality(InFlightPosts) < room
    /\ pc' = [pc EXCEPT ![h] = "json"]
    /\ kind' = [kind EXCEPT ![h] = "POST"]
    /\ data' = [data EXCEPT ![h] = body]
    /\ response' = [response EXCEPT ![h] = NoResponse]
    /\ UNCHANGED <<now, cachedClient, clients, connectCalls, store, eventToInsert,
                   stamp, client, settled>>
    /\ UNCHANGED dashboard

\* The handler in slot h returns `resp`: its locals go out of scope, and the
\* response stays with the caller.
Returns(h, resp) ==
    /\ pc' = [pc EXCEPT ![h] = "done"]
    /\ response' = [response EXCEPT ![h] = resp]
    /\ data' = [data EXCEPT ![h] = NoData]
    /\ eventToInsert' = [eventToInsert EXCEPT ![h] = NoEvent]
    /\ stamp' = [stamp EXCEPT ![h] = 0]
    /\ client' = [client EXCEPT ![h] = Null]
    /\ settled' = [settled EXCEPT ![h] = NotAwaiting]

\* POST returns `resp` without having touched the connection or the store.
PostReturnsEarly(h, resp) ==
    /\ Returns(h, resp)
    /\ UNCHANGED <<now, cachedClient, clients, connectCalls, store, kind>>

\* Lines 364-384: request.json() settles and POST runs up to `await getClient()`.
PostValidates(h) ==
    /\ pc[h] = "json"
    /\ IF data[h] = Unparsable
       THEN PostReturnsEarly(h, ErrorResponse("Unexpected token in JSON"))
       ELSE IF ~Destructurable(data[h])
       THEN PostReturnsEarly(h, ErrorResponse("Cannot destructure property titre"))
       ELSE IF ~TitreAccepted(Field(data[h], "titre"))
       THEN PostReturnsEarly(h, TitreResponse)
       ELSE /\ eventToInsert' = [eventToInsert EXCEPT ![h] = BuildEvent(data[h], now)]
            /\ stamp' = [stamp EXCEPT ![h] = now]
            /\ GetClientCall(h)
            /\ pc' = [pc EXCEPT ![h] = "getClient"]
            /\ UNCHANGED <<now, store, kind, data, client, response>>
    /\ UNCHANGED dashboard

\* A catch block that answers with an empty success instead of the error.
CatchesWithEmptySuccess(h, outcome) == Returns(h, EventsResponse(<<>>))

\* The catch block (lines 388-394, 403-405) after the awaited promise rejected.
Catches(h, outcome) == Returns(h, ErrorResponse(outcome.reason))

\* Lines 384-386 and 399-401: `await getClient()` resumes; on success the
\* handler binds `client` and issues its operation (insertOne or find) on it.
GetClientResumes(h) ==
    /\ pc[h] = "getClient"
    /\ GetClientOutcome(h).state # "pending"
    /\ IF GetClientOutcome(h).state = "rejected"
       THEN Catches(h, GetClientOutcome(h))
       ELSE /\ client' = [client EXCEPT ![h] = GetClientOutcome(h).value]
            /\ settled' = [settled EXCEPT ![h] = Pending]
            /\ pc' = [pc EXCEPT ![h] = IF kind[h] = "POST" THEN "insertOne" ELSE "find"]
            /\ UNCHANGED <<response, data, eventToInsert, stamp>>
    /\ UNCHANGED <<now, cachedClient, clients, connectCalls, store, kind>>
    /\ UNCHANGED dashboard

\* The driver completes h's insertOne: the document is written, or the
\* operation fails and nothing is written.
InsertOneSettles(h, ok) ==
    /\ pc[h] = "insertOne"
    /\ settled[h] = Pending
    /\ IF ok
       THEN /\ store' = Inserted(store, eventToInsert[h])
            /\ settled' = [settled EXCEPT ![h] =
                              Fulfilled([insertedId |-> store'[Len(store')]._id])]
       ELSE /\ store' = store
            /\ settled' = [settled EXCEPT ![h] = Rejected("insertOne failed")]
    /\ UNCHANGED <<now, cachedClient, clients, connectCalls, pc, kind, data,
                   eventToInsert, stamp, client, response>>
    /\ UNCHANGED dashboard

\* Lines 386-394: `await insertOne` resumes and POST responds.
PostResponds(h) ==
    /\ pc[h] = "insertOne"
    /\ settled[h] # Pending
    /\ IF settled[h].state = "rejected"
       THEN Catches(h, settled[h])
       ELSE Returns(h, InsertedResponse(settled[h].value))
    /\ UNCHANGED <<now, cachedClient, clients, connectCalls, store, kind>>
    /\ UNCHANGED dashboard

-----------------------------------------------------------------------------
(* GET, lines 397-406 *)

\* A dashboard poll arrives in slot h; GET runs up to `await getClient()`.
GET(h) ==
    /\ pc[h] \in {"idle", "done"}
    /\ pc' = [pc EXCEPT ![h] = "getClient"]
    /\ kind' = [kind EXCEPT ![h] = "GET"]
    /\ response' = [response EXCEPT ![h] = NoResponse]
    /\ GetClientCall(h)
    /\ UNCHANGED <<now, store, data, eventToInsert, stamp, client>>
    /\ UNCHANGED dashboard

\* The driver completes h's find: it returns the most recent documents of the
\* collection as it is now, or fails.
FindSettles(h, ok) ==
    /\ pc[h] = "find"
    /\ settled[h] = Pending
    /\ IF ok
       THEN \E found \in FindRecent(store) :
                settled' = [settled EXCEPT ![h] = Fulfilled(found)]
       ELSE settled' = [settled EXCEPT ![h] = Rejected("find failed")]
    /\ UNCHANGED <<now, cachedClient, clients, connectCalls, store, pc, kind, data,
                   eventToInsert, stamp, client, response>>
    /\ UNCHANGED dashboard

\* Lines 401-405: `await ...toArray()` resumes and GET responds.
GetResponds(h) ==
    /\ pc[h] = "find"
    /\ settled[h] # Pending
    /\ IF settled[h].state = "rejected"
       THEN Catches(h, settled[h])
       ELSE Returns(h, EventsResponse(settled[h].value))
    /\ UNCHANGED <<now, cachedClient, clients, connectCalls, store, kind>>
    /\ UNCHANGED dashboard

-----------------------------------------------------------------------------
\* The server clock advances.
Tick(max) ==
    /\ now < max
    /\ now' = now + 1
    /\ UNCHANGED <<cachedClient, clients, connectCalls, store, pc, kind, data,
                   eventToInsert, stamp, client, settled, response>>
    /\ UNCHANGED dashboard

\* What the handlers and the driver do, whatever the traffic.
Serve ==
    \/ \E h \in Handlers : PostValidates(h)
    \/ \E h \in Handlers : GetClientResumes(h)
    \/ \E h \in Handlers : PostResponds(h)
    \/ \E h \in Handlers : GetResponds(h)
    \/ \E c \in DOMAIN clients, ok \in BOOLEAN : ConnectSettles(c, ok)
    \/ \E h \in Handlers, ok \in BOOLEAN : InsertOneSettles(h, ok)
    \/ \E h \in Handlers, ok \in BOOLEAN : FindSettles(h, ok)

Next ==
    \/ Tick(MaxClock)
    \/ \E h \in Handlers, body \in Bodies : POST(h, body, MaxStore)
    \/ \E h \in Handlers : GET(h)
    \/ Serve

Spec == Init /\ [][Next]_vars

-----------------------------------------------------------------------------
(* One Port Scan event followed by a flood of Brute Force events.  The same   *)
(* handlers under one particular traffic: the requests come one at a time,    *)
(* at least one clock tick apart; slot h1 posts the Port Scan event into the  *)
(* empty collection, and slot h2 then posts the Brute Force events and polls. *)

\* The flood may grow the collection to MaxFlood records.
MaxFlood == 201

Quiet == \A h \in Handlers : pc[h] \in {"idle", "done"}
LastReceivedAt == store[Len(store)].receivedAt.time

FloodPost ==
    /\ Quiet
    /\ IF store = <<>>
       THEN POST("h1", JObj([titre |-> JStr("Port Scan")]), MaxFlood)
       ELSE /\ now > LastReceivedAt
            /\ POST("h2", JObj([titre |-> JStr("Brute Force")]), MaxFlood)

\* The dashboard polls at any time, also before the first event is stored.
FloodPoll == Quiet /\ GET("h2")

FloodTick == Quiet /\ store # <<>> /\ now = LastReceivedAt /\ Tick(MaxFlood)

NextFlood ==
    \/ FloodPost
    \/ FloodPoll
    \/ FloodTick
    \/ Serve

SpecFlood == Init /\ [][NextFlood]_vars

-----------------------------------------------------------------------------
(* The dashboard (Home, lines 56-110).  It polls GET and keeps the window it *)
(* received in `events`; the charts and the statistics are computed from     *)
(* `events` at every render.                                                 *)

\* The days of 2024 that precede each month, and the whole year.
DaysBefore == <<0, 31, 60, 91, 121, 152, 182, 213, 244, 274, 305, 335, 366>>
MonthOf(n) == CHOOSE m \in 1..12 : DaysBefore[m] <= n /\ n < DaysBefore[m + 1]

\* Date.prototype.toISOString() of a valid date of 2024, up to the hour:
\* <<year, month, day, hour>> stands for the text "YYYY-MM-DDTHH".
toISOString(d) ==
    LET n == d.time \div 24
    IN <<2024, MonthOf(n), n - DaysBefore[MonthOf(n)] + 1, d.time % 24>>

\* A JSON string that holds an ISO date.
IsoString(iso) == [type |-> "string", iso |-> iso]

\* A serialisation that writes an Invalid Date as its text.
DateToJSONAsText(d) ==
    IF d.valid THEN IsoString(toISOString(d)) ELSE JStr("Invalid Date")

\* JSON.stringify of a Date (line 402): Date.prototype.toJSON gives
\* toISOString() for a valid date and null for an Invalid Date.
DateToJSON(d) == IF d.valid THEN IsoString(toISOString(d)) ELSE JNull

\* JSON.stringify of an ObjectId: its hex string.
IdToJSON(id) == [type |-> "string", hex |-> id]

\* JSON.stringify of a stored document, as JSON.parse gives it back: the
\* EventData of line 37.
DocToJSON(doc) ==
    [f \in DOMAIN doc |->
        CASE f = "_id" -> IdToJSON(doc[f])
          [] f \in {"date", "receivedAt"} -> DateToJSON(doc[f])
          [] OTHER -> doc[f]]

\* `await res.json()` (line 63): the body of the response, parsed.
ResJson(resp) ==
    IF resp.ok
    THEN [ok |-> TRUE,
          events |-> [k \in DOMAIN resp.events |-> DocToJSON(resp.events[k])]]
    ELSE [ok |-> FALSE, error |-> resp.error]

\* `ev.f`: undefined when the event has no such field.
EvField(ev, f) == IF f \in DOMAIN ev THEN ev[f] ELSE Undefined

\* Truthiness of a parsed value, as in `ev.date || ...`, `e.ip_source`.
WireTruthy(v) == "iso" \in DOMAIN v \/ "hex" \in DOMAIN v \/ Truthy(v)

\* `new Date(raw)` in the browser.
ClientDate(raw) ==
    IF "iso" \in DOMAIN raw
    THEN DateOf((DaysBefore[raw.iso[2]] + raw.iso[3] - 1) * 24 + raw.iso[4])
    ELSE NewDate(raw)

\* Line 76: `ev.date || ev.receivedAt || Date.now()`.
RawDate(ev, clock) ==
    IF WireTruthy(EvField(ev, "date")) THEN ev.date
    ELSE IF WireTruthy(EvField(ev, "receivedAt")) THEN ev.receivedAt
    ELSE JNum(clock)

\* Lines 77-80: the bucket of an event, .slice(0, 10) or .slice(0, 13) of the
\* ISO text.
BucketKey(ev, group, clock) ==
    LET iso == toISOString(ClientDate(RawDate(ev, clock)))
    IN IF group = "jour" THEN SubSeq(iso, 1, 3) ELSE iso

\* An exception leaves the function.
Thrown(msg) == [threw |-> TRUE, error |-> msg]

\* `counts[key] = 1`: the bucket is marked, not counted.
CountedOnce(counts, key) == (key :> 1) @@ counts

\* Line 81: `counts[key] = (counts[key] || 0) + 1`.
Counted(counts, key) ==
    (key :> (IF key \in DOMAIN counts THEN counts[key] ELSE 0) + 1) @@ counts

\* Lines 74-82: `counts` after the forEach has visited the first n events.
RECURSIVE TimeCounts(_, _, _, _)
TimeCounts(window, n, group, clock) ==
    IF n = 0 THEN <<>>
    ELSE Counted(TimeCounts(window, n - 1, group, clock),
                 BucketKey(window[n], group, clock))

\* The order of Array.prototype.sort() on the keys: the fields of an ISO text
\* are zero-padded, so the texts compare as their fields do.
KeyBefore(a, b) ==
    \E i \in DOMAIN a : a[i] < b[i] /\ \A j \in 1..(i - 1) : a[j] = b[j]

\* Line 84: `Object.keys(counts).sort()`.
RECURSIVE SortedKeys(_)
SortedKeys(S) ==
    IF S = {} THEN <<>>
    ELSE LET m == CHOOSE m \in S : \A k \in S \ {m} : KeyBefore(m, k)
         IN <<m>> \o SortedKeys(S \ {m})

\* Lines 73-89.  toISOString() throws a RangeError on an Invalid Date.
computeTimeSeries(window, group, clock) ==
    IF \E k \in DOMAIN window : ~ClientDate(RawDate(window[k], clock)).valid
    THEN Thrown("Invalid time value")
    ELSE LET counts == TimeCounts(window, Len(window), group, clock)
             labels == SortedKeys(DOMAIN counts)
         IN [threw |-> FALSE, labels |-> labels,
             data |-> [i \in DOMAIN labels |-> counts[labels[i]]]]

\* The properties every object literal inherits from Object.prototype.
ObjectPrototype ==
    {"constructor", "__proto__", "hasOwnProperty", "isPrototypeOf",
     "propertyIsEnumerable", "toLocaleString", "toString", "valueOf",
     "__defineGetter__", "__defineSetter__", "__lookupGetter__",
     "__lookupSetter__"}

\* String(Object.prototype[key]).
InheritedText(key) ==
    CASE key = "constructor" -> "function Object() { [native code] }"
      [] key = "__proto__" -> "[object Object]"
      [] OTHER -> "function " \o key \o "() { [native code] }"

\* Line 93: `d = {}`, an object with its own keys in insertion order.
EmptyObject == [keys |-> <<>>, val |-> <<>>]

\* `d[key]`: the own property, else the inherited one, else undefined.
Get(d, key) ==
    IF key \in DOMAIN d.val THEN d.val[key]
    ELSE IF key \in ObjectPrototype
         THEN [type |-> "inherited", text |-> InheritedText(key)]
         ELSE Undefined

\* `(v || 0) + 1`: addition for a number, concatenation for anything else that
\* is truthy.
PlusOne(v) ==
    CASE v.type = "number" -> JNum(v.num + 1)
      [] v.type = "undefined" -> JNum(1)
      [] v.type = "string" -> JStr(v.str \o "1")
      [] OTHER -> JStr(v.text \o "1")

\* `d[key] = v`: the __proto__ setter ignores a value that is no object.
Set(d, key, v) ==
    IF key = "__proto__" THEN d
    ELSE [keys |-> IF key \in DOMAIN d.val THEN d.keys ELSE Append(d.keys, key),
          val |-> (key :> v) @@ d.val]

\* Lines 93-96: `d` after the forEach has visited the first n events.
RECURSIVE TitleCounts(_, _)
TitleCounts(window, n) ==
    IF n = 0 THEN EmptyObject
    ELSE LET d == TitleCounts(window, n - 1)
         IN Set(d, window[n].titre, PlusOne(Get(d, window[n].titre)))

\* Line 97: sort((a, b) => d[b] - d[a]) on numbers is a stable sort by count
\* descending: the first n keys, each placed behind the keys that count as
\* much or more.
RECURSIVE SortedByCount(_, _)
SortedByCount(d, n) ==
    IF n = 0 THEN <<>>
    ELSE LET r == SortedByCount(d, n - 1)
             key == d.keys[n]
             k == Cardinality({i \in DOMAIN r : d.val[r[i]].num >= d.val[key].num})
         IN SubSeq(r, 1, k) \o <<key>> \o SubSeq(r, k + 1, Len(r))

\* Every order of the keys.
Orders(keys) ==
    {[i \in DOMAIN keys |-> keys[p[i]]] :
        p \in {p \in [DOMAIN keys -> DOMAIN keys] :
                 \A i, j \in DOMAIN keys : p[i] = p[j] => i = j}}

\* Lines 91-102: the results computeTitleBars may return.  When a value of `d`
\* is no number, d[b] - d[a] is NaN and the order sort() leaves is up to the
\* engine.
computeTitleBars(window) ==
    LET d == TitleCounts(window, Len(window))
        sorted == IF \A key \in DOMAIN d.val : d.val[key].type = "number"
                  THEN {SortedByCount(d, Len(d.keys))}
                  ELSE Orders(d.keys)
    IN {[labels |-> labels, data |-> [i \in DOMAIN labels |-> d.val[labels[i]]]] :
           labels \in sorted}

\* Every event with an ip_source is its own source: nothing is deduplicated.
uniqueIPsUndeduplicated(window) ==
    Cardinality({k \in DOMAIN window : WireTruthy(EvField(window[k], "ip_source"))})

\* Line 105.
uniqueIPs(window) ==
    Cardinality({window[k].ip_source :
                   k \in {k \in DOMAIN window :
                            WireTruthy(EvField(window[k], "ip_source"))}})

\* Line 106.
eventsWithRecommendation(window) ==
    Cardinality({k \in DOMAIN window :
                   WireTruthy(EvField(window[k], "recommendation"))})

\* Line 107.
lastEvent(window) == IF Len(window) > 0 THEN window[1] ELSE JNull

\* The four figures Home renders (lines 153, 162, 171, 181).
Summary(window) ==
    [total |-> Len(window),
     uniqueIPs |-> uniqueIPs(window),
     eventsWithRecommendation |-> eventsWithRecommendation(window),
     lastEvent |-> lastEvent(window)]

\* Line 62: fetchEvents() sends its request, which GET serves in slot h.
fetchEvents(h) == pc[h] = "idle" /\ GET(h)

\* A poll that keeps the displayed window when the response is not ok.
FetchEventsKeepsOnError(h) ==
    /\ pc[h] = "done"
    /\ kind[h] = "GET"
    /\ LET body == ResJson(response[h])
       IN events' = IF body.ok THEN body.events ELSE events
    /\ pc' = [pc EXCEPT ![h] = "idle"]
    /\ UNCHANGED <<now, cachedClient, clients, connectCalls, store, kind, data,
                   eventToInsert, stamp, client, settled, response, timeGroup>>

\* Lines 63-65: the response has arrived, fetchEvents parses it and sets
\* `events`.  The slot keeps the response that was applied last.
FetchEventsApplies(h) ==
    /\ pc[h] = "done"
    /\ kind[h] = "GET"
    /\ LET body == ResJson(response[h])
       IN events' = IF body.ok THEN body.events ELSE <<>>
    /\ pc' = [pc EXCEPT ![h] = "idle"]
    /\ UNCHANGED <<now, cachedClient, clients, connectCalls, store, kind, data,
                   eventToInsert, stamp, client, settled, response, timeGroup>>

\* Line 198: the user picks the other granularity.
setTimeGroup(g) ==
    /\ timeGroup # g
    /\ timeGroup' = g
    /\ UNCHANGED <<now, cachedClient, clients, connectCalls, store, pc, kind, data,
                   eventToInsert, stamp, client, settled, response, events>>

-----------------------------------------------------------------------------
(* The dashboard in front of the webhook.  The same handlers under one        *)
(* particular traffic: the requests come one at a time, the events one clock  *)
(* tick apart; slot h1 posts the events and slot h2 serves the polls of the   *)
(* dashboard.                                                                 *)

\* The collection may grow to MaxWindow records.
MaxWindow == 3

\* The payloads posted: all pass validation.
DashBodies ==
    { JObj([titre |-> JStr("Port Scan"), date |-> JStr("2024-01-01T10:00"),
            recommendation |-> JStr("block"), ip_source |-> JStr("10.0.0.1")]),
      JObj([titre |-> JStr("Port Scan"), date |-> JStr("2024-01-01T11:00"),
            ip_source |-> JStr("10.0.0.1")]),
      JObj([titre |-> JStr("Brute Force"), date |-> JStr("2024-01-02T09:00")]),
      JObj([titre |-> JStr("constructor"), date |-> JStr("yesterday"),
            ip_source |-> JStr("10.0.0.2")]) }

DashPost ==
    /\ Quiet
    /\ IF store = <<>> THEN TRUE ELSE now > LastReceivedAt
    /\ \E body \in DashBodies : POST("h1", body, MaxWindow)

DashTick == Quiet /\ store # <<>> /\ now = LastReceivedAt /\ Tick(MaxWindow)

DashPoll == pc["h1"] \in {"idle", "done"} /\ fetchEvents("h2")

NextDash ==
    \/ DashPost
    \/ DashTick
    \/ DashPoll
    \/ FetchEventsApplies("h2")
    \/ \E g \in {"jour", "heure"} : setTimeGroup(g)
    \/ Serve

SpecDash == Init /\ [][NextDash]_vars

-----------------------------------------------------------------------------
(* Properties *)

Issued(h) == pc[h] \in {"insertOne", "find"}
Built(h) == kind[h] = "POST" /\ pc[h] \in {"getClient", "insertOne"}
Finishes(h) == pc[h] # "done" /\ pc'[h] = "done"

\* C1: whatever the interleaving of the handlers that call getClient(), at most
\* one MongoClient is constructed, connect() is called at most once, and every
\* getClient() call that returns returns that one client.
C1_SingleConnection ==
    /\ Len(clients) <= 1
    /\ connectCalls <= 1
    /\ \A h \in Handlers :
        /\ Issued(h) => client[h] = cachedClient /\ client[h] = 1
        /\ (pc[h] = "getClient" /\ GetClientOutcome(h).state = "fulfilled")
              => GetClientOutcome(h).value = 1

\* Two handlers have called getClient() while the only client is still
\* connecting: one awaits connect(), the other was given the cached client.
C1_Witness ==
    \E h, g \in Handlers :
        /\ h # g
        /\ pc[h] = "getClient" /\ settled[h] = Awaiting(1)
        /\ pc[g] = "getClient" /\ settled[g] = Fulfilled(1)
        /\ clients = <<"connecting">>

\* C2: a handler holds the client returned by getClient(), and has issued its
\* insertOne or find on it, only once connect() has completed successfully.
C2_HandleOnlyOnceConnected ==
    \A h \in Handlers : Issued(h) => clients[client[h]] = "connected"

\* C3: while no connection has succeeded, getClient() fails: its promise is
\* never fulfilled with a client whose connect() failed.
C3_FailedConnectIsSurfaced ==
    \A h \in Handlers :
        (pc[h] = "getClient" /\ GetClientOutcome(h).state = "fulfilled")
            => clients[GetClientOutcome(h).value] # "failed"

\* A structured payload whose titre is missing, empty or not a string.
TitreMissingOrBad(d) ==
    /\ d # Unparsable
    /\ Destructurable(d)
    /\ \/ Field(d, "titre").type # "string"
       \/ Field(d, "titre").str = ""

\* C4: a POST whose payload has a missing, empty or non-string titre answers
\* 400 with ok=false straight from validation; that step leaves the collection,
\* the cached client and the connections untouched (no getClient, no insertOne).
C4_BadTitreRejectedBeforeStore ==
    [][\A h \in Handlers :
        (kind[h] = "POST" /\ pc[h] = "json" /\ pc'[h] # "json"
         /\ TitreMissingOrBad(data[h]))
        => /\ pc'[h] = "done"
           /\ response'[h].status = 400
           /\ response'[h].ok = FALSE
           /\ store' = store
           /\ cachedClient' = cachedClient
           /\ clients' = clients
           /\ connectCalls' = connectCalls]_vars

\* A POST was answered 400 while the collection already held a record.
C4_Witness ==
    \E h \in Handlers :
        /\ kind[h] = "POST" /\ pc[h] = "done"
        /\ response[h].status = 400
        /\ Len(store) > 0

\* C5: a POST that fails because of its payload (not JSON, not a map, bad titre)
\* answers 400, and a POST answers 500 only after getClient() or insertOne failed.
C5_PayloadFailuresAnswer400 ==
    [][\A h \in Handlers :
        (kind[h] = "POST" /\ Finishes(h))
        => /\ (data[h] = Unparsable \/ ~Destructurable(data[h])
               \/ TitreMissingOrBad(data[h])) => response'[h].status = 400
           /\ response'[h].status = 500 => pc[h] \in {"getClient", "insertOne"}]_vars

\* The date the claim expects in the record: the submitted one when it parses,
\* else the time of ingestion t.
ExpectedDate(d, t) ==
    IF Field(d, "date").type \in {"string", "number"} /\ NewDate(Field(d, "date")).valid
    THEN NewDate(Field(d, "date"))
    ELSE DateOf(t)

\* C6: the date of every event POST builds and of every stored record is a valid
\* timestamp: the submitted one when it parses, else the time of ingestion.
C6_StoredDateIsValid ==
    /\ \A h \in Handlers :
          Built(h) => eventToInsert[h].date = ExpectedDate(data[h], stamp[h])
    /\ \A i \in DOMAIN store : store[i].date.valid

\* C7: a handler answers ok=true only with what the store returned (POST: the id
\* of its record, which is in the collection; GET: the list find returned), and
\* every failure of getClient, insertOne or find is answered ok=false, 500,
\* with the error's message.
C7_NoFailureSwallowed ==
    [][\A h \in Handlers :
        Finishes(h) =>
          /\ (pc[h] = "getClient" \/ (Issued(h) /\ settled[h].state = "rejected"))
                => /\ response'[h].ok = FALSE
                   /\ response'[h].status = 500
                   /\ response'[h].error
                        = (IF pc[h] = "getClient" THEN GetClientOutcome(h)
                                                  ELSE settled[h]).reason
          /\ (response'[h].ok /\ kind[h] = "POST")
                => /\ pc[h] = "insertOne" /\ settled[h].state = "fulfilled"
                   /\ response'[h].insertedId \in DOMAIN store
                   /\ store[response'[h].insertedId]
                        = eventToInsert[h] @@ [_id |-> response'[h].insertedId]
          /\ (response'[h].ok /\ kind[h] = "GET")
                => /\ pc[h] = "find" /\ settled[h].state = "fulfilled"
                   /\ response'[h].events = settled[h].value]_vars

\* One handler was answered 500 for a failed insertOne while another was
\* answered 500 for a failed find or a failed connect, with a record stored.
C7_Witness ==
    \E h, g \in Handlers :
        /\ pc[h] = "done" /\ response[h].status = 500
        /\ response[h].error = "insertOne failed"
        /\ pc[g] = "done" /\ response[g].status = 500
        /\ response[g].error \in {"find failed", "connect ECONNREFUSED"}
        /\ Len(store) > 0

\* C8: receivedAt never decreases along the insertion order of the collection.
C8_ReceivedAtMonotonic ==
    \A i, j \in DOMAIN store :
        i < j => store[i].receivedAt.time <= store[j].receivedAt.time

\* The titre of the record a successful POST response names.
PostedTitre(h) == store[response[h].insertedId].titre
Titres(found) == {found[k].titre : k \in DOMAIN found}
Succeeded(h) == kind[h] = "POST" /\ pc[h] = "done" /\ response[h].ok
\* The find of handler g completes in this step.
FindCompletes(g) ==
    pc[g] = "find" /\ settled[g] = Pending /\ settled'[g].state = "fulfilled"
\* POST answers a payload with a non-empty string titre: with ok=true exactly
\* when neither getClient() nor insertOne failed, and then the record under
\* the returned id carries the payload's titre.
AcceptedPostAnswer(h) ==
    (kind[h] = "POST" /\ Finishes(h) /\ data[h] # Unparsable
     /\ Destructurable(data[h]) /\ ~TitreMissingOrBad(data[h]))
    => /\ response'[h].ok <=> (pc[h] = "insertOne" /\ settled[h].state = "fulfilled")
       /\ response'[h].ok =>
             /\ response'[h].insertedId \in DOMAIN store
             /\ store[response'[h].insertedId].titre = Field(data[h], "titre").str

SameCore(d1, d2) ==
    \A f \in {"titre", "date", "recommendation", "ip_source"} : Field(d1, f) = Field(d2, f)

\* C10: receivedAt of the event POST builds is the clock value read while
\* handling the request, and two handlers whose payloads agree on titre, date,
\* recommendation and ip_source and that read the same clock value build
\* identical events, whatever else the payloads hold.
C10_ReceivedAtIsServerClock ==
    \A h \in Handlers :
        Built(h) =>
          /\ eventToInsert[h].receivedAt = DateOf(stamp[h])
          /\ \A g \in Handlers :
                (Built(g) /\ SameCore(data[g], data[h]) /\ stamp[g] = stamp[h])
                    => eventToInsert[g] = eventToInsert[h]

\* Two handlers hold events built at the same clock value from payloads that
\* differ only in a client-supplied receivedAt and _id.
C10_Witness ==
    \E h, g \in Handlers :
        /\ Built(h) /\ Built(g)
        /\ data[h] # data[g]
        /\ "receivedAt" \in DOMAIN data[h].fields
        /\ SameCore(data[g], data[h])
        /\ stamp[g] = stamp[h]

\* The list `found` is a newest-first window of the collection `docs`: at most
\* 200 records, as many as the collection allows, each a record of the
\* collection and none twice, in non-increasing order of receivedAt, and no
\* record left out is more recent than the oldest record of the list.
NewestWindow(found, docs) ==
    LET ids == {found[k]._id : k \in DOMAIN found}
    IN /\ Len(found) <= FetchLimit
       /\ Len(found) = (IF Len(docs) <= FetchLimit THEN Len(docs) ELSE FetchLimit)
       /\ \A k \in DOMAIN found :
             /\ found[k]._id \in DOMAIN docs
             /\ docs[found[k]._id] = found[k]
       /\ Cardinality(ids) = Len(found)
       /\ \A k \in 1..(Len(found) - 1) :
             found[k].receivedAt.time >= found[k + 1].receivedAt.time
       /\ \A i \in DOMAIN docs :
             i \notin ids => docs[i].receivedAt.time <= found[Len(found)].receivedAt.time

\* C11: the list a find returns is at most 200 records long and holds exactly
\* the records of the collection with the largest receivedAt, newest first (the
\* empty list for the empty collection), and GET answers ok=true, status 200,
\* with that list.
C11_GetReturnsNewestWindow ==
    [][\A g \in Handlers :
        /\ FindCompletes(g) => NewestWindow(settled'[g].value, store)
        /\ (FindCompletes(g) /\ store = <<>>) => settled'[g].value = <<>>
        /\ (kind[g] = "GET" /\ Finishes(g) /\ pc[g] = "find"
            /\ settled[g].state = "fulfilled")
              => response'[g] = [ok |-> TRUE, events |-> settled[g].value,
                                 status |-> 200]]_vars

\* A find returned 200 of the 201 records of the collection: the oldest
\* record, the Port Scan event, is the one left out.
C11_Witness ==
    \E g \in Handlers :
        /\ pc[g] = "find" /\ settled[g].state = "fulfilled"
        /\ Len(store) = FetchLimit + 1
        /\ Len(settled[g].value) = FetchLimit
        /\ Titres(settled[g].value) = {"Brute Force"}

\* C16: the collection is append-only.  Every step leaves it as it is or
\* appends exactly one record, and then it is the insertOne of a POST that
\* appends the event that POST built; one POST appends at most one record; no
\* step of a GET changes it; every record stays in place with all its fields.
C16_AppendOnly ==
    [][/\ \A i \in DOMAIN store : i \in DOMAIN store' /\ store'[i] = store[i]
       /\ Len(store') <= Len(store) + 1
       /\ store' # store =>
             \E h \in Handlers :
                 /\ kind[h] = "POST" /\ pc[h] = "insertOne" /\ settled[h] = Pending
                 /\ settled'[h].state = "fulfilled"
                 /\ store' = Append(store, eventToInsert[h] @@ [_id |-> Len(store) + 1])
       /\ \A h \in Handlers :
             (kind[h] = "POST" /\ pc[h] = "insertOne" /\ settled[h] # Pending)
                => store' = store \/ \E g \in Handlers \ {h} : settled[g] # settled'[g]
       /\ \A g \in Handlers :
             (kind[g] = "GET" /\ (pc'[g] # pc[g] \/ settled'[g] # settled[g]))
                => store' = store]_vars

\* Two records are stored and a GET has answered with both of them.
C16_Witness ==
    /\ Len(store) = 2
    /\ \E g \in Handlers :
          /\ kind[g] = "GET" /\ pc[g] = "done"
          /\ response[g].ok /\ Len(response[g].events) = 2

RECURSIVE Sum(_)
Sum(s) == IF s = <<>> THEN 0 ELSE Head(s) + Sum(Tail(s))

Granularities == {"jour", "heure"}

\* The result of computeTimeSeries on the window: it returned; its labels are
\* strictly ascending, none twice; each label is the bucket of at least one
\* event and comes with the number of events of that bucket; every event is
\* counted, so the counts sum to the window size.
TimeSeriesCorrect(window, group, clock) ==
    LET r == computeTimeSeries(window, group, clock)
    IN /\ r.threw = FALSE
       /\ Len(r.data) = Len(r.labels)
       /\ \A i \in 1..(Len(r.labels) - 1) : KeyBefore(r.labels[i], r.labels[i + 1])
       /\ \A i, j \in DOMAIN r.labels : r.labels[i] = r.labels[j] => i = j
       /\ \A i \in DOMAIN r.labels :
             /\ r.data[i] >= 1
             /\ r.data[i] = Cardinality({k \in DOMAIN window :
                                BucketKey(window[k], group, clock) = r.labels[i]})
       /\ \A k \in DOMAIN window :
             \E i \in DOMAIN r.labels : r.labels[i] = BucketKey(window[k], group, clock)
       /\ Sum(r.data) = Len(window)

\* The three events of the scenario: 2024-01-01T10:00, 2024-01-01T11:00 and
\* 2024-01-02T09:00.
ScenarioDates(window) ==
    /\ Len(window) = 3
    /\ {window[k].date : k \in DOMAIN window}
          = {IsoString(<<2024, 1, 1, 10>>), IsoString(<<2024, 1, 1, 11>>),
             IsoString(<<2024, 1, 2, 9>>)}

\* C12: for the displayed window and both granularities, computeTimeSeries
\* returns strictly ascending labels, no key twice, only buckets that hold an
\* event, each with its count, and the counts sum to the window size; the three
\* events of the scenario give by day [2024-01-01, 2024-01-02] and [2, 1].
C12_TimeSeries ==
    /\ \A group \in Granularities : TimeSeriesCorrect(events, group, now)
    /\ ScenarioDates(events)
          => computeTimeSeries(events, "jour", now)
                = [threw |-> FALSE,
                   labels |-> <<(<<2024, 1, 1>>), (<<2024, 1, 2>>)>>,
                   data |-> <<2, 1>>]

\* The dashboard displays the three events of the scenario.
C12_Witness == ScenarioDates(events)

\* C13: every result computeTitleBars may return for the displayed window
\* holds each distinct titre exactly once, with the number of events of that
\* titre, in non-increasing order of count, the counts summing to the window
\* size; titres Port Scan, Port Scan, Brute Force give
\* [(Port Scan, 2), (Brute Force, 1)].
C13_TitleBars ==
    \A r \in computeTitleBars(events) :
        /\ {r.labels[i] : i \in DOMAIN r.labels} = Titres(events)
        /\ \A i, j \in DOMAIN r.labels : r.labels[i] = r.labels[j] => i = j
        /\ \A i \in DOMAIN r.labels :
              r.data[i] = JNum(Cardinality({k \in DOMAIN events :
                                     events[k].titre = r.labels[i]}))
        /\ \A i \in 1..(Len(r.labels) - 1) : r.data[i].num >= r.data[i + 1].num
        /\ Sum([i \in DOMAIN r.data |-> r.data[i].num]) = Len(events)
        /\ (Len(events) = 3 /\ Titres(events) = {"Port Scan", "Brute Force"}
            /\ Cardinality({k \in DOMAIN events : events[k].titre = "Port Scan"}) = 2)
              => r = [labels |-> <<"Port Scan", "Brute Force">>,
                      data |-> <<JNum(2), JNum(1)>>]

\* What the dashboard shows for an empty window.
EmptySummary ==
    [total |-> 0, uniqueIPs |-> 0, eventsWithRecommendation |-> 0,
     lastEvent |-> JNull]

\* C14: for the displayed window, the total is the window size, the unique
\* sources are the distinct ip_source values of the events that have one, the
\* recommendations are the events that have one, the last event is the first
\* element of the window or none; the empty window gives 0, 0, 0, none.
C14_SummaryStats ==
    LET s == Summary(events)
    IN /\ s.total = Len(events)
       /\ s.uniqueIPs
            = Cardinality({events[k].ip_source :
                             k \in {k \in DOMAIN events : "ip_source" \in DOMAIN events[k]}})
       /\ s.eventsWithRecommendation
            = Cardinality({k \in DOMAIN events : "recommendation" \in DOMAIN events[k]})
       /\ s.lastEvent = (IF Len(events) = 0 THEN JNull ELSE events[1])
       /\ Len(events) = 0 => s = EmptySummary

\* The window holds two events of the same source and one without a source.
C14_Witness ==
    /\ Len(events) = 3
    /\ uniqueIPs(events) = 1
    /\ \E k \in DOMAIN events : "ip_source" \notin DOMAIN events[k]
    /\ eventsWithRecommendation(events) = 1

\* C15: for every window the dashboard receives, computeTimeSeries returns for
\* both granularities without throwing, computeTitleBars returns a result and
\* the statistics are defined.
C15_AggregationsTotal ==
    /\ \A group \in Granularities : computeTimeSeries(events, group, now).threw = FALSE
    /\ \E r \in computeTitleBars(events) : Len(r.labels) = Len(r.data)
    /\ Summary(events).total = Len(events)

\* The window holds an event whose submitted date was unparsable, next to
\* another event.
C15_Witness ==
    /\ Len(events) >= 2
    /\ \E k \in DOMAIN events : events[k].date = JNull

\* C17: the step that applies a poll response sets the displayed window to the
\* events of the response when it is ok, and to the empty list when it is not;
\* the statistics then are those of an empty store.
C17_PollResponseApplied ==
    [][\A h \in Handlers :
        (kind[h] = "GET" /\ pc[h] = "done" /\ pc'[h] = "idle")
        => /\ response[h].ok => events' = ResJson(response[h]).events
           /\ ~response[h].ok => /\ events' = <<>>
                                 /\ Summary(events') = EmptySummary]_vars

\* The last poll failed in find while the collection holds records: the
\* dashboard displays nothing.
C17_Witness ==
    \E h \in Handlers :
        /\ kind[h] = "GET" /\ pc[h] = "idle"
        /\ response[h].status = 500 /\ response[h].error = "find failed"
        /\ store # <<>>
        /\ events = <<>>

====
